---- MODULE Spec2Model ----
(***************************************************************************)
(* A model of tooba/main.py: the text normaliser, the file matcher, the    *)
(* catalog scanner behind functools.lru_cache and the request handlers.    *)
(*                                                                         *)
(* Text is a sequence of characters; a character is a one-character string *)
(* or, for a character outside ASCII, the name of its code point.          *)
(***************************************************************************)
EXTENDS Integers, Sequences, FiniteSets, TLC

VARIABLES
    norm,       \* the normaliser's input and the results of its passes
    match,      \* one call of _match_file: its arguments, the disk, its result
    nfos,       \* the descriptor files that are on disk (indices into NfoTable)
    media,      \* the media files that are on disk (paths)
    cache,      \* the slot of lru_cache(maxsize=1) around scan(): None or a catalog object
    workers,    \* per worker thread: the handler it runs and the scan it is in
    builds,     \* the number of times the body of scan() was entered
    returned,   \* the ids of the catalog objects that calls to scan() have returned
    lastResp,   \* the last response sent, with what its handler saw
    fsChanges   \* the number of changes made to the disk

vars == <<norm, match, nfos, media, cache, workers, builds, returned,
          lastResp, fsChanges>>

\* Python's None where a text is expected, and where an object is expected
None == <<"None">>
Null == <<>>

\* ------------------------------- bounds --------------------------------
MaxLen == 3
NumWorkers == 2
MaxFsChanges == 1
MaxLibrary == 5

\* ------------------------------- text ----------------------------------

\* s[i:] and s[:i] with Python's 0-based index i
From(s, i) == SubSeq(s, i + 1, Len(s))
UpTo(s, i) == SubSeq(s, 1, i)

\* "sub in s" of Python
Contains(s, sub) ==
    \E i \in 0..(Len(s) - Len(sub)) : SubSeq(s, i + 1, i + Len(sub)) = sub

StartsWith(s, pre) ==
    Len(pre) <= Len(s) /\ SubSeq(s, 1, Len(pre)) = pre

\* the last index (1-based) of character c in s, 0 when absent
RECURSIVE LastIndex(_, _)
LastIndex(s, c) ==
    IF s = <<>> THEN 0
    ELSE IF s[Len(s)] = c THEN Len(s)
    ELSE LastIndex(UpTo(s, Len(s) - 1), c)

UpperChars ==
    <<"A", "B", "C", "D", "E", "F", "G", "H", "I", "J", "K", "L", "M", "N", "O", "P"
      , "Q", "R", "S", "T", "U", "V", "W", "X", "Y", "Z", "U+00C9">>
LowerChars ==
    <<"a", "b", "c", "d", "e", "f", "g", "h", "i", "j", "k", "l", "m", "n", "o", "p"
      , "q", "r", "s", "t", "u", "v", "w", "x", "y", "z", "U+00E9">>

\* str.lower on one character
LowerChar(c) ==
    IF \E i \in 1..Len(UpperChars) : UpperChars[i] = c
    THEN LowerChars[CHOOSE i \in 1..Len(UpperChars) : UpperChars[i] = c]
    ELSE c

\* the canonical decomposition of one character: U+00C9 is E followed by the
\* combining acute accent U+0301, U+00E9 is e followed by it
Decompose(c) ==
    CASE c = "U+00C9" -> <<"E", "U+0301">>
      [] c = "U+00E9" -> <<"e", "U+0301">>
      [] OTHER -> <<c>>

\* unicodedata.category(c) = "Mn"
IsMn(c) == c = "U+0301"

\* unicodedata.normalize("NFD", txt)
RECURSIVE NFD(_)
NFD(txt) == IF txt = <<>> THEN <<>> ELSE Decompose(Head(txt)) \o NFD(Tail(txt))

NotMn(c) == ~IsMn(c)
StripMn(txt) == SelectSeq(txt, NotMn)
Lower(txt) == [i \in 1..Len(txt) |-> LowerChar(txt[i])]
ReplaceSpace(txt) == [i \in 1..Len(txt) |-> IF txt[i] = " " THEN "." ELSE txt[i]]
NotPunct(c) == c \notin {",", "?", "!"}
RmPunct(txt) == SelectSeq(txt, NotPunct)

\* a decomposition that comes too late: the marks are stripped before the
\* accented characters are decomposed
normalize_stripFirst(txt) == RmPunct(ReplaceSpace(Lower(NFD(StripMn(txt)))))

\* a normaliser that forgets lower()
normalize_noLower(txt) == RmPunct(ReplaceSpace(StripMn(NFD(txt))))

normalize(txt) == RmPunct(ReplaceSpace(Lower(StripMn(NFD(txt)))))

\* ------------------------------- paths ---------------------------------
\* A path is the sequence of its components below the root "/".

S_Volumes == <<"V", "o", "l", "u", "m", "e", "s">>
S_Lootbox == <<"L", "o", "o", "t", "b", "o", "x">>
S_tv == <<"t", "v">>
S_MyShow == <<"M", "y", " ", "S", "h", "o", "w">>
S_Other == <<"O", "t", "h", "e", "r">>
S_Foo == <<"F", "o", "o">>
S_Bar == <<"B", "a", "r">>
S_Baz == <<"B", "a", "z">>
S_Pilot == <<"P", "i", "l", "o", "t">>
S_Two == <<"T", "w", "o">>
N_ep_nfo == <<"e", "p", ".", "n", "f", "o">>
N_x1_nfo == <<"x", "1", ".", "n", "f", "o">>
N_tvshow_nfo == <<"t", "v", "s", "h", "o", "w", ".", "n", "f", "o">>
N_ep_mp4 == <<"e", "p", ".", "m", "p", "4">>
N_ep_MKV == <<"e", "p", ".", "M", "K", "V">>
N_ep2_avi == <<"e", "p", "2", ".", "a", "v", "i">>
N_myshow_mkv ==
    <<"m", "y", "s", "h", "o", "w", ".", "s", "0", "1", "e", "0", "1", ".", "m", "k", "v">>
N_my_show_mkv ==
    <<"m", "y", ".", "s", "h", "o", "w", ".", "s", "0", "1", "e", "0", "1", ".", "m", "k", "v">>
N_MyShowPilot_webm ==
    <<"M", "y", " ", "S", "h", "o", "w", " ", "P", "i", "l", "o", "t", ".", "w", "e", "b", "m">>
N_ep_tbn == <<"e", "p", ".", "t", "b", "n">>
N_my_show_s1e1_tbn ==
    <<"m", "y", ".", "s", "h", "o", "w", ".", "s", "1", "e", "1", ".", "t", "b", "n">>

BASE_PATH == <<S_Volumes, S_Lootbox, S_tv>>
VIDEO_EXTENSIONS ==
    {<<".", "m", "p", "4">>, <<".", "w", "e", "b", "m">>,
     <<".", "m", "k", "v">>, <<".", "a", "v", "i">>}
THUMB_EXTENSION == <<".", "t", "b", "n">>

Name(p) == p[Len(p)]
Parent(p) == UpTo(p, Len(p) - 1)

\* PurePath.suffix: the name from its last dot on, unless that dot is the
\* first or the last character of the name
Suffix(p) ==
    LET name == Name(p)
        j == LastIndex(name, ".")
    IN  IF 1 < j /\ j < Len(name) THEN SubSeq(name, j, Len(name)) ELSE <<>>

\* PurePath.stem
Stem(p) ==
    LET name == Name(p)
        j == LastIndex(name, ".")
    IN  IF 1 < j /\ j < Len(name) THEN UpTo(name, j - 1) ELSE name

\* PurePath.with_suffix
WithSuffix(p, ext) == Append(Parent(p), Stem(p) \o ext)

\* str(path)
RECURSIVE PathStr(_)
PathStr(p) == IF p = <<>> THEN <<>> ELSE <<"/">> \o Head(p) \o PathStr(Tail(p))

\* the paths that BASE_PATH.rglob visits: everything on disk below BASE_PATH
Under(base, p) == Len(p) > Len(base) /\ UpTo(p, Len(base)) = base

\* ---------------------------- _match_file ------------------------------

\* dict.get: None for a missing key
Get(meta, key) == IF key \in DOMAIN meta THEN meta[key] ELSE None

\* str.zfill: zeros on the left, after a leading sign
zfill(s, width) ==
    LET RECURSIVE Zeros(_)
        Zeros(n) == IF n <= 0 THEN <<>> ELSE <<"0">> \o Zeros(n - 1)
    IN  IF Len(s) >= width THEN s
        ELSE IF s # <<>> /\ s[1] \in {"+", "-"}
             THEN <<s[1]>> \o Zeros(width - Len(s)) \o Tail(s)
             ELSE Zeros(width - Len(s)) \o s

\* 1) the descriptor's path with each accepted extension, when it exists
Siblings(nfo, exts, disk) == {WithSuffix(nfo, ext) : ext \in exts} \cap disk

\* 2) BASE_PATH.rglob(f"{nfo.stem}*") filtered by the suffix, lower-cased
StemHits(nfo, exts, disk) ==
    {p \in disk : /\ Under(BASE_PATH, p)
                  /\ StartsWith(Name(p), Stem(nfo))
                  /\ Lower(Suffix(p)) \in exts}

\* the season and episode tokens without the zero-padded form
Patterns_unpadded(meta) ==
    {<<"s">> \o meta["season"] \o <<"e">> \o meta["episode"]}

Patterns(meta) ==
    {<<"s">> \o meta["season"] \o <<"e">> \o meta["episode"],
     <<"s">> \o zfill(meta["season"], 2) \o <<"e">> \o zfill(meta["episode"], 2)}

\* 3) BASE_PATH.rglob("*") filtered by the suffix and by the normalised stem
FuzzyHits(meta, exts, disk) ==
    LET show == normalize(meta["showtitle"])
        title == normalize(meta["title"])
    IN  {p \in disk :
            /\ Under(BASE_PATH, p)
            /\ Lower(Suffix(p)) \in exts
            /\ LET stem == normalize(Stem(p))
               IN  /\ Contains(stem, show)
                   /\ \/ Contains(stem, title)
                      \/ \E tok \in Patterns(meta) : Contains(stem, tok)}

Found(p, st, n) == [path |-> PathStr(p), stage |-> st, rglobs |-> n]

\* The fuzzy search that runs although the stem search has found files.
match_file_fuzzyFirst(nfo, meta, exts, disk) ==
    IF Siblings(nfo, exts, disk) # {}
    THEN {Found(p, "sibling", 0) : p \in Siblings(nfo, exts, disk)}
    ELSE IF Get(meta, "type") = "episode" /\ FuzzyHits(meta, exts, disk) # {}
    THEN {Found(p, "fuzzy", 2) : p \in FuzzyHits(meta, exts, disk)}
    ELSE IF StemHits(nfo, exts, disk) # {}
    THEN {Found(p, "stem", 1) : p \in StemHits(nfo, exts, disk)}
    ELSE {[path |-> None, stage |-> "none", rglobs |-> 2]}

\* The outcomes of _match_file(nfo, meta, exts) on the given disk: the path
\* returned, the strategy that found it and the number of library-wide
\* searches (rglob) started.  The order in which a frozenset is iterated and a
\* directory tree is walked is not fixed, so any hit of the winning strategy
\* can be the first.
match_file(nfo, meta, exts, disk) ==
    IF Siblings(nfo, exts, disk) # {}
    THEN {Found(p, "sibling", 0) : p \in Siblings(nfo, exts, disk)}
    ELSE IF StemHits(nfo, exts, disk) # {}
    THEN {Found(p, "stem", 1) : p \in StemHits(nfo, exts, disk)}
    ELSE IF Get(meta, "type") # "episode"
    THEN {[path |-> None, stage |-> "none", rglobs |-> 1]}
    ELSE IF FuzzyHits(meta, exts, disk) # {}
    THEN {Found(p, "fuzzy", 2) : p \in FuzzyHits(meta, exts, disk)}
    ELSE {[path |-> None, stage |-> "none", rglobs |-> 2]}

find_video(nfo, meta, disk) == match_file(nfo, meta, VIDEO_EXTENSIONS, disk)
find_thumbnail(nfo, meta, disk) == match_file(nfo, meta, {THUMB_EXTENSION}, disk)

\* --------------------------- descriptors ------------------------------
\* A descriptor is an XML document: its root tag and the text of the root's
\* children, or a text that is no well-formed XML ("malformed").

TvShowDoc(title, plot) ==
    [root |-> "tvshow", children |-> [title |-> title, plot |-> plot]]

EpisodeDoc(showtitle, title, season, episode) ==
    [root |-> "episodedetails",
     children |-> [showtitle |-> showtitle, title |-> title,
                   season |-> season, episode |-> episode]]

OtherDoc == [root |-> "movie", children |-> [title |-> S_Foo]]
Malformed == [root |-> "malformed", children |-> <<>>]

\* _get(el, tagname) or "": the empty text for a missing or empty child
GetOrEmpty(doc, tagname) ==
    IF tagname \in DOMAIN doc.children THEN doc.children[tagname] ELSE <<>>

NoMeta == <<>>

parse_nfo_file(doc) ==
    CASE doc.root = "malformed" -> NoMeta
      [] doc.root = "tvshow" ->
            [type |-> "show",
             title |-> GetOrEmpty(doc, "title"),
             plot |-> GetOrEmpty(doc, "plot"),
             thumb |-> GetOrEmpty(doc, "thumb")]
      [] doc.root = "episodedetails" ->
            [type |-> "episode",
             showtitle |-> GetOrEmpty(doc, "showtitle"),
             title |-> GetOrEmpty(doc, "title"),
             season |-> GetOrEmpty(doc, "season"),
             episode |-> GetOrEmpty(doc, "episode"),
             plot |-> GetOrEmpty(doc, "plot"),
             aired |-> GetOrEmpty(doc, "aired")]
      [] OTHER -> NoMeta

\* The descriptors that can be on disk: where, whether the path is a regular
\* file, and the document in it.
NfoTable ==
    << [path |-> BASE_PATH \o <<S_Foo, N_tvshow_nfo>>, isFile |-> TRUE,
        doc |-> TvShowDoc(S_Foo, <<"a">>)],
       [path |-> BASE_PATH \o <<S_Foo, N_ep_nfo>>, isFile |-> TRUE,
        doc |-> EpisodeDoc(S_Foo, S_Pilot, <<"1">>, <<"2">>)],
       [path |-> BASE_PATH \o <<S_Foo, N_x1_nfo>>, isFile |-> TRUE,
        doc |-> EpisodeDoc(S_Foo, S_Two, <<"1">>, <<"1", "0">>)],
       [path |-> BASE_PATH \o <<S_Baz, N_tvshow_nfo>>, isFile |-> TRUE,
        doc |-> TvShowDoc(S_Baz, <<"b">>)],
       [path |-> BASE_PATH \o <<S_Bar, N_ep_nfo>>, isFile |-> TRUE,
        doc |-> EpisodeDoc(S_Bar, S_Pilot, <<"1">>, <<"1">>)],
       [path |-> BASE_PATH \o <<S_Other, N_ep_nfo>>, isFile |-> TRUE,
        doc |-> OtherDoc],
       [path |-> BASE_PATH \o <<S_Other, N_x1_nfo>>, isFile |-> TRUE,
        doc |-> Malformed],
       [path |-> BASE_PATH \o <<S_Other, N_tvshow_nfo>>, isFile |-> FALSE,
        doc |-> Malformed] >>

AllNfos == 1..Len(NfoTable)

\* the media files that can be on disk beside the descriptors
MediaTable ==
    {BASE_PATH \o <<S_Foo, N_ep_mp4>>, BASE_PATH \o <<S_Foo, N_ep_tbn>>}

\* the regular files on disk
Disk(ns, ms) == ms \cup {NfoTable[i].path : i \in {j \in ns : NfoTable[j].isFile}}

\* ----------------------------- the catalog -----------------------------

\* hashlib.md5(...).hexdigest()[:8].  The digest of a text is written as a
\* text with that digest; the digests of two texts can be equal, as those of
\* "Baz" and "Foo" are here.
Md5Hex8(raw) == IF raw = S_Baz THEN S_Foo ELSE raw

show_key(title) == Md5Hex8(title)

\* Episode.slug
slug(ep) ==
    Md5Hex8(ep.showtitle \o <<"-", "s">> \o ep.season \o <<"e">> \o ep.episode
            \o <<"-">> \o ep.title)

Show(title, plot, thumb) ==
    [title |-> title, plot |-> plot, thumb |-> thumb, episodes |-> <<>>]

\* A dict is the sequence of its items in insertion order.
DictKeys(d) == {d[i].key : i \in 1..Len(d)}
DictGet(d, k) ==
    IF k \in DictKeys(d) THEN d[CHOOSE i \in 1..Len(d) : d[i].key = k].val ELSE Null

\* d[k] = v: the item keeps its place when the key is there already
DictSet(d, k, v) ==
    IF k \in DictKeys(d)
    THEN [i \in 1..Len(d) |-> IF d[i].key = k THEN [key |-> k, val |-> v] ELSE d[i]]
    ELSE Append(d, [key |-> k, val |-> v])

\* d.setdefault(k, v)
SetDefault(d, k, v) == IF k \in DictKeys(d) THEN d ELSE Append(d, [key |-> k, val |-> v])

\* a show descriptor that keeps the episodes of the entry it finds
PutShow_merge(shows, meta) ==
    LET k == show_key(meta["title"])
        old == DictGet(shows, k)
    IN  DictSet(shows, k,
                [Show(meta["title"], meta["plot"], meta["thumb"])
                    EXCEPT !.episodes = IF old = Null THEN <<>> ELSE old.episodes])

\* shows[show_key(title)] = Show(...): the entry is replaced, episodes and all
PutShow(shows, meta) ==
    DictSet(shows, show_key(meta["title"]),
            Show(meta["title"], meta["plot"], meta["thumb"]))

Episode(meta, video, thumbnail) ==
    [showtitle |-> meta["showtitle"], title |-> meta["title"],
     season |-> meta["season"], episode |-> meta["episode"],
     plot |-> meta["plot"], aired |-> Get(meta, "aired"),
     video_file |-> video, thumbnail |-> thumbnail]

\* an episode filed under the key of its own title instead of its show's title
AddEpisode_byTitle(shows, ep) ==
    LET k == show_key(ep.title)
        d == SetDefault(shows, k, Show(ep.showtitle, <<>>, None))
    IN  [i \in 1..Len(d) |->
            IF d[i].key = k
            THEN [d[i] EXCEPT !.val.episodes = Append(@, ep)]
            ELSE d[i]]

\* shows.setdefault(show_key(showtitle), Show(showtitle, "")).episodes.append(ep)
AddEpisode(shows, ep) ==
    LET k == show_key(ep.showtitle)
        d == SetDefault(shows, k, Show(ep.showtitle, <<>>, None))
    IN  [i \in 1..Len(d) |->
            IF d[i].key = k
            THEN [d[i] EXCEPT !.val.episodes = Append(@, ep)]
            ELSE d[i]]

\* One turn of the loop of scan() for the descriptor i: the catalogs it can
\* leave, given the catalog so far and the files on disk.
ScanOne(shows, i, disk) ==
    IF ~NfoTable[i].isFile THEN {shows}
    ELSE LET meta == parse_nfo_file(NfoTable[i].doc)
         IN  CASE Get(meta, "type") = "show" -> {PutShow(shows, meta)}
               [] Get(meta, "type") = "episode" ->
                    {AddEpisode(shows, Episode(meta, v.path, t.path)) :
                        v \in find_video(NfoTable[i].path, meta, disk),
                        t \in find_thumbnail(NfoTable[i].path, meta, disk)}
               [] OTHER -> {shows}

\* ------------------------- sorting and quoting -------------------------

\* the characters in the order of their code points
CodeOrder ==
    <<" ", "!", "%", "+", ",", "-", ".", "/",
      "0", "1", "2", "3", "4", "5", "6", "7", "8", "9", "?">>
    \o SubSeq(UpperChars, 1, 26) \o SubSeq(LowerChars, 1, 26)
    \o <<"U+00C9", "U+00E9", "U+0301">>

Code(c) == CHOOSE i \in 1..Len(CodeOrder) : CodeOrder[i] = c

Range(seq) == {seq[i] : i \in 1..Len(seq)}

\* a < b for two texts
RECURSIVE StrLess(_, _)
StrLess(a, b) ==
    IF b = <<>> THEN FALSE
    ELSE IF a = <<>> THEN TRUE
    ELSE IF Head(a) = Head(b) THEN StrLess(Tail(a), Tail(b))
    ELSE Code(Head(a)) < Code(Head(b))

\* (e.season, e.episode) < (f.season, f.episode): tuples of texts
KeyLess(e, f) ==
    \/ StrLess(e.season, f.season)
    \/ e.season = f.season /\ StrLess(e.episode, f.episode)

\* the stable sort of sorted() and list.sort()
RECURSIVE SortByKey(_)
SortByKey(eps) ==
    IF eps = <<>> THEN <<>>
    ELSE LET rest == SortByKey(UpTo(eps, Len(eps) - 1))
             e == eps[Len(eps)]
             \* e goes after every element that is not greater than it
             n == Cardinality({i \in 1..Len(rest) : \A j \in i..Len(rest) :
                                                        KeyLess(e, rest[j])})
             at == Len(rest) - n
         IN  UpTo(rest, at) \o <<e>> \o From(rest, at)

\* list.sort(): the list itself is put in order
sorted_inPlace(eps) == [result |-> SortByKey(eps), arg |-> SortByKey(eps)]

\* sorted(eps, key=...): a new list; the list passed in stays as it is
sorted(eps) == [result |-> SortByKey(eps), arg |-> eps]

\* urllib.parse.quote for the characters of the model: "/" is safe
RECURSIVE quote(_)
quote(s) ==
    IF s = <<>> THEN <<>>
    ELSE (CASE Head(s) = " " -> <<"%", "2", "0">>
            [] Head(s) = "%" -> <<"%", "2", "5">>
            [] OTHER -> <<Head(s)>>) \o quote(Tail(s))

\* urllib.parse.unquote: an escape it does not know stays as it is
RECURSIVE unquote(_)
unquote(s) ==
    IF s = <<>> THEN <<>>
    ELSE IF Head(s) = "%" /\ Len(s) >= 3 /\ <<s[2], s[3]>> = <<"2", "0">>
         THEN <<" ">> \o unquote(From(s, 3))
    ELSE IF Head(s) = "%" /\ Len(s) >= 3 /\ <<s[2], s[3]>> = <<"2", "5">>
         THEN <<"%">> \o unquote(From(s, 3))
    ELSE IF Head(s) = "%" /\ Len(s) >= 3 /\ <<s[2], s[3]>> \in {<<"2", "F">>, <<"2", "f">>}
         THEN <<"/">> \o unquote(From(s, 3))
    ELSE <<Head(s)>> \o unquote(Tail(s))

\* Path(text).is_file()
is_file(text, disk) == \E p \in disk : PathStr(p) = text

\* ---------------------------- the handlers -----------------------------

\* the keys of the catalog in the order home() lists them
DictKeySeq(d) == [i \in 1..Len(d) |-> d[i].key]

\* every episode of the catalog, show by show
RECURSIVE AllEpisodes(_)
AllEpisodes(d) == IF d = <<>> THEN <<>> ELSE Head(d).val.episodes \o AllEpisodes(Tail(d))

Page(status, page, content, cat) ==
    [status |-> status, page |-> page, content |-> content, cat |-> cat]

\* an unknown key answered with an HTTP error instead of a page
not_found_raise(cat) == Page(404, "error", <<>>, cat)

\* _not_found renders a page; the handler returns it as a normal response
not_found(cat) == Page(200, "not_found", <<>>, cat)

\* home() with the catalog that scan() returned
home(cat) == Page(200, "home", DictKeySeq(cat), cat)

\* show_detail(show_hash) with the catalog that scan() returned; cat is the
\* catalog as the handler leaves it
show_detail(cat, show_hash) ==
    IF show_hash \notin DictKeys(cat) THEN not_found(cat)
    ELSE LET show == DictGet(cat, show_hash)
         IN  IF show.episodes # <<>>
             THEN LET r == sorted(show.episodes)
                  IN  Page(200, "show", r.result,
                           DictSet(cat, show_hash, [show EXCEPT !.episodes = r.arg]))
             ELSE Page(200, "show", <<>>, cat)

\* episode_detail(episode_hash): the first episode with that slug
episode_detail(cat, episode_hash) ==
    LET eps == AllEpisodes(cat)
        hits == {i \in 1..Len(eps) : slug(eps[i]) = episode_hash}
    IN  IF hits = {} THEN not_found(cat)
        ELSE Page(200, "episode",
                  <<eps[CHOOSE i \in hits : \A j \in hits : i <= j]>>, cat)

Render(handler, arg, cat) ==
    CASE handler = "home" -> home(cat)
      [] handler = "show_detail" -> show_detail(cat, arg)
      [] handler = "episode_detail" -> episode_detail(cat, arg)

\* serve_video and serve_thumb: the file at "/" + unquote(path), or HTTP 404
serve_file(path, disk) ==
    LET f == <<"/">> \o unquote(path)
    IN  IF ~is_file(f, disk) THEN Page(404, "error", <<>>, <<>>)
        ELSE Page(200, "file", f, <<>>)

\* a file response without the check that the file is there
serve_file_unchecked(path, disk) == Page(200, "file", <<"/">> \o unquote(path), <<>>)

\* ------------------------------ lru_cache ------------------------------
\* functools.lru_cache(maxsize=1) around a function without arguments: one
\* key, one slot.  A call looks the key up; on a miss it calls the function
\* and then stores the result unless the key has been stored meanwhile; the
\* caller gets the result of its own call either way.

\* a cache that never answers from its slot
LruHit_never(c) == FALSE

LruHit(c) == c # Null

\* a store that replaces what another call has stored
LruStore_lastWins(c, obj) == obj

LruStore(c, obj) == IF c = Null THEN obj ELSE c

\* ------------------------------- server --------------------------------

Workers == 1..NumWorkers

IdleWorker ==
    [pc |-> "idle", order |-> <<>>, shows |-> <<>>, id |-> 0, prior |-> {}]

\* A response, with what its handler saw: the id of the catalog that scan()
\* returned to it, the keys and slugs in that catalog, whether the call walked
\* the library, the ids returned by the calls that had returned before this
\* call started, and for a file request whether its path was a regular file
\* on disk.
NoResp ==
    [handler |-> "", arg |-> <<>>, status |-> 0, page |-> "", content |-> <<>>,
     cat |-> 0, keys |-> {}, slugs |-> {}, walked |-> FALSE, prior |-> {},
     onDisk |-> FALSE]

\* the descriptors a walk has not come to yet
Unvisited(w) == nfos \ Range(workers[w].order)

Resp(handler, arg, page, obj, walked, prior) ==
    [handler |-> handler, arg |-> arg, status |-> page.status, page |-> page.page,
     content |-> page.content, cat |-> obj.id, keys |-> DictKeys(obj.val),
     slugs |-> {slug(e) : e \in Range(AllEpisodes(obj.val))},
     walked |-> walked, prior |-> prior,
     onDisk |-> \E p \in Disk(nfos, media) : PathStr(p) = <<"/">> \o unquote(arg)]

\* A worker thread runs a page handler, whose call of scan() misses the
\* cache: the thread enters the body of scan().  The threads of the pool are
\* alike, and a request goes to the first of them that is idle.  Which of the three handlers
\* made the call has no influence on the walk; it shows when the call returns.
EnterScan(w) ==
    /\ workers[w].pc = "idle"
    /\ \A v \in Workers : v < w => workers[v].pc # "idle"
    /\ ~LruHit(cache)
    /\ builds' = builds + 1
    /\ workers' = [workers EXCEPT ![w] =
                      [pc |-> "scan", order |-> <<>>, shows |-> <<>>,
                       id |-> builds + 1, prior |-> returned]]
    /\ UNCHANGED <<norm, match, nfos, media, cache, returned, lastResp, fsChanges>>

\* A page handler whose call of scan() hits the cache: it runs to its end
\* with the cached catalog.
HandleHit(w, handler, arg) ==
    /\ workers[w].pc = "idle"
    /\ \A v \in Workers : v < w => workers[v].pc # "idle"
    /\ LruHit(cache)
    /\ LET page == Render(handler, arg, cache.val)
       IN  /\ cache' = [cache EXCEPT !.val = page.cat]
           /\ lastResp' = Resp(handler, arg, page, cache, FALSE, returned)
           /\ returned' = returned \cup {cache.id}
    /\ UNCHANGED <<norm, match, nfos, media, workers, builds, fsChanges>>

\* The walk is over: scan() returns its catalog through the cache wrapper,
\* which stores it unless another call has stored one, and the handler runs
\* to its end with the catalog of its own call.
HandleMiss(w, handler, arg) ==
    /\ workers[w].pc = "scan"
    /\ Unvisited(w) = {}
    /\ LET me == workers[w]
           obj == [id |-> me.id, val |-> me.shows]
           slot == LruStore(cache, obj)
           page == Render(handler, arg, obj.val)
       IN  /\ cache' = IF slot.id = obj.id THEN [obj EXCEPT !.val = page.cat] ELSE slot
           /\ lastResp' = Resp(handler, arg, page, obj, TRUE, me.prior)
           /\ returned' = returned \cup {obj.id}
    /\ workers' = [workers EXCEPT ![w] = IdleWorker]
    /\ UNCHANGED <<norm, match, nfos, media, builds, fsChanges>>

Handle(w, handler, arg) == HandleHit(w, handler, arg) \/ HandleMiss(w, handler, arg)

ShowKeys == {show_key(S_Foo), <<"0">>}

EpisodeKeys ==
    {slug(Episode(parse_nfo_file(NfoTable[2].doc), None, None)), <<"0">>}

Home(w) == Handle(w, "home", <<>>)
ShowDetail(w) == \E h \in ShowKeys : Handle(w, "show_detail", h)
EpisodeDetail(w) == \E h \in EpisodeKeys : Handle(w, "episode_detail", h)

\* one turn of the loop of scan(): the walk comes to a descriptor
ScanStep(w) ==
    /\ workers[w].pc = "scan"
    /\ \E i \in Unvisited(w) :
         \E shows \in ScanOne(workers[w].shows, i, Disk(nfos, media)) :
            workers' = [workers EXCEPT ![w].order = Append(@, i), ![w].shows = shows]
    /\ UNCHANGED <<norm, match, nfos, media, cache, builds, returned, lastResp,
                   fsChanges>>

\* the path fragments that requests for files carry
VideoPaths ==
    {quote(Tail(PathStr(p))) :
        p \in {BASE_PATH \o <<S_Foo, N_ep_mp4>>, BASE_PATH \o <<S_Foo>>}}

ThumbPaths ==
    {quote(Tail(PathStr(p))) :
        p \in {BASE_PATH \o <<S_Foo, N_ep_tbn>>, BASE_PATH \o <<S_MyShow, N_ep_tbn>>}}

Serve(handler, path) ==
    /\ lastResp' = Resp(handler, path, serve_file(path, Disk(nfos, media)),
                        [id |-> 0, val |-> <<>>], FALSE, {})
    /\ UNCHANGED <<norm, match, nfos, media, cache, workers, builds, returned,
                   fsChanges>>

ServeVideo == \E path \in VideoPaths : Serve("serve_video", path)
ServeThumb == \E path \in ThumbPaths : Serve("serve_thumb", path)

\* the files of the library that come and go while the server runs
InitialNfos == {2}
ServerNfos == {3}
ServerMedia == {BASE_PATH \o <<S_Foo, N_ep_mp4>>}

\* somebody adds or removes a file of the library
FsChange ==
    /\ fsChanges < MaxFsChanges
    /\ fsChanges' = fsChanges + 1
    /\ \/ \E i \in ServerNfos :
            /\ nfos' = IF i \in nfos THEN nfos \ {i} ELSE nfos \cup {i}
            /\ media' = media
       \/ \E m \in ServerMedia :
            /\ media' = IF m \in media THEN media \ {m} ELSE media \cup {m}
            /\ nfos' = nfos
    /\ UNCHANGED <<norm, match, cache, workers, builds, returned, lastResp>>

\* ------------------------- the normaliser's runs -------------------------

Alphabet == {"R", "r", "U+00C9", "U+00E9", "U+0301", " ", ".", ",", "?", "!"}

RECURSIVE StringsUpTo(_)
StringsUpTo(n) ==
    IF n = 0 THEN {<<>>}
    ELSE LET S == StringsUpTo(n - 1)
         IN  S \cup {Append(s, c) : s \in {t \in S : Len(t) = n - 1}, c \in Alphabet}

MrDotRobot == <<"M", "r", ".", " ", "R", "o", "b", "o", "t">>
MrCommaRobot == <<"M", "r", ",", " ", "R", "o", "b", "o", "t">>
mrRobot == <<"m", "r", " ", "r", "o", "b", "o", "t">>
Titles == {MrDotRobot, MrCommaRobot, mrRobot}

NormIdle == [in |-> <<>>, out1 |-> None, out2 |-> None, passes |-> 0]

\* the first pass normalises the input, the second pass the first result
NormPass ==
    /\ norm.passes < 2
    /\ norm' = IF norm.passes = 0
               THEN [norm EXCEPT !.out1 = normalize(norm.in), !.passes = 1]
               ELSE [norm EXCEPT !.out2 = normalize(norm.out1), !.passes = 2]
    /\ UNCHANGED <<match, nfos, media, cache, workers, builds, returned,
                   lastResp, fsChanges>>

NormInit ==
    norm \in {[NormIdle EXCEPT !.in = txt] : txt \in StringsUpTo(MaxLen) \cup Titles}

\* ------------------------- the matcher's runs --------------------------

MatchNfos == {BASE_PATH \o <<S_MyShow, N_ep_nfo>>, BASE_PATH \o <<S_MyShow, N_x1_nfo>>}

PilotMeta ==
    parse_nfo_file(EpisodeDoc(S_MyShow, S_Pilot, <<"1">>, <<"1">>))

MatchMetas == {PilotMeta, parse_nfo_file(TvShowDoc(S_MyShow, <<>>))}

F_sibling == BASE_PATH \o <<S_MyShow, N_ep_mp4>>
F_upper == BASE_PATH \o <<S_MyShow, N_ep_MKV>>
F_prefix == BASE_PATH \o <<S_Other, N_ep2_avi>>
F_myshow == BASE_PATH \o <<S_MyShow, N_myshow_mkv>>
F_my_show == BASE_PATH \o <<S_MyShow, N_my_show_mkv>>
F_pilot == BASE_PATH \o <<S_MyShow, N_MyShowPilot_webm>>
F_thumb == BASE_PATH \o <<S_MyShow, N_ep_tbn>>
F_thumb_s1e1 == BASE_PATH \o <<S_MyShow, N_my_show_s1e1_tbn>>

MatchFiles ==
    {F_sibling, F_upper, F_prefix, F_myshow, F_my_show, F_pilot, F_thumb, F_thumb_s1e1}

NoMatch == [path |-> None, stage |-> "pending", rglobs |-> 0]

MatchIdle ==
    [nfo |-> BASE_PATH \o <<S_MyShow, N_ep_nfo>>, meta |-> PilotMeta,
     exts |-> VIDEO_EXTENSIONS, disk |-> {}, result |-> NoMatch, done |-> FALSE]

MatchInit ==
    match \in {[MatchIdle EXCEPT !.nfo = n, !.meta = m, !.exts = e, !.disk = d] :
                  n \in MatchNfos, m \in MatchMetas,
                  e \in {VIDEO_EXTENSIONS, {THUMB_EXTENSION}}, d \in SUBSET MatchFiles}

\* one call of _match_file(nfo, meta, exts)
MatchCall ==
    /\ ~match.done
    /\ \E r \in match_file(match.nfo, match.meta, match.exts, match.disk) :
          match' = [match EXCEPT !.result = r, !.done = TRUE]
    /\ UNCHANGED <<norm, nfos, media, cache, workers, builds, returned,
                   lastResp, fsChanges>>

\* --------------------------- specifications ---------------------------

ServerIdle ==
    /\ cache = Null
    /\ builds = 0
    /\ returned = {}
    /\ lastResp = NoResp
    /\ fsChanges = 0

\* the server on a small library, with requests in parallel and a disk that
\* changes
Init ==
    /\ norm = NormIdle
    /\ match = MatchIdle
    /\ nfos = InitialNfos
    /\ media = MediaTable
    /\ workers = [w \in Workers |-> IdleWorker]
    /\ ServerIdle

Next ==
    \/ \E w \in Workers : Home(w)
    \/ \E w \in Workers : ShowDetail(w)
    \/ \E w \in Workers : EpisodeDetail(w)
    \/ \E w \in Workers : EnterScan(w)
    \/ \E w \in Workers : ScanStep(w)
    \/ ServeVideo
    \/ ServeThumb
    \/ FsChange

Spec == Init /\ [][Next]_vars

\* one walk at a time over every library of up to MaxLibrary of the descriptors
InitScan ==
    /\ norm = NormIdle
    /\ match = MatchIdle
    /\ nfos \in {lib \in SUBSET AllNfos : Cardinality(lib) <= MaxLibrary}
    /\ media = MediaTable
    /\ workers = [w \in {1} |-> IdleWorker]
    /\ ServerIdle

NextScan ==
    \/ Home(1)
    \/ EnterScan(1)
    \/ ScanStep(1)

SpecScan == InitScan /\ [][NextScan]_vars

\* the normaliser on every text up to MaxLen characters and on some titles
InitNorm ==
    /\ NormInit
    /\ match = MatchIdle
    /\ nfos = {}
    /\ media = {}
    /\ workers = [w \in Workers |-> IdleWorker]
    /\ ServerIdle

NextNorm == NormPass

SpecNorm == InitNorm /\ [][NextNorm]_vars

\* the matcher on every disk that the files of MatchFiles can make
InitMatch ==
    /\ norm = NormIdle
    /\ MatchInit
    /\ nfos = {}
    /\ media = {}
    /\ workers = [w \in Workers |-> IdleWorker]
    /\ ServerIdle

NextMatch == MatchCall

SpecMatch == InitMatch /\ [][NextMatch]_vars

\* ------------------------------- claims --------------------------------

\* the texts of the formulas below
T_mr_robot == <<"m", "r", ".", "r", "o", "b", "o", "t">>
T_mr_dot_robot == <<"m", "r", ".", ".", "r", "o", "b", "o", "t">>
T_pilot == <<"p", "i", "l", "o", "t">>
T_s01e01 == <<"s", "0", "1", "e", "0", "1">>
T_s1e1 == <<"s", "1", "e", "1">>

\* the text with every "." that stands before a space taken out
RECURSIVE DropDotBeforeSpace(_)
DropDotBeforeSpace(txt) ==
    IF txt = <<>> THEN <<>>
    ELSE IF Len(txt) >= 2 /\ txt[1] = "." /\ txt[2] = " "
         THEN DropDotBeforeSpace(Tail(txt))
         ELSE <<Head(txt)>> \o DropDotBeforeSpace(Tail(txt))

\* C3: _match_file returns a sibling of the descriptor, and starts no
\* library-wide search, whenever the descriptor's path with an accepted
\* extension exists; it returns a stem-prefix match only when no sibling
\* exists, and a fuzzy match only when neither a sibling nor a stem-prefix
\* match exists.
C3_StrictPriority ==
    match.done =>
        LET siblings == {p \in match.disk :
                            \E ext \in match.exts : p = WithSuffix(match.nfo, ext)}
            prefixed == {p \in match.disk :
                            /\ Under(BASE_PATH, p)
                            /\ StartsWith(Name(p), Stem(match.nfo))
                            /\ Lower(Suffix(p)) \in match.exts}
        IN  /\ siblings # {} =>
                /\ match.result.path \in {PathStr(p) : p \in siblings}
                /\ match.result.stage = "sibling"
                /\ match.result.rglobs = 0
            /\ match.result.stage = "stem" =>
                /\ siblings = {}
                /\ match.result.path \in {PathStr(p) : p \in prefixed}
            /\ match.result.stage = "fuzzy" =>
                /\ siblings = {} /\ prefixed = {}
                /\ match.result.path \in {PathStr(p) : p \in match.disk}

\* a call that returned a sibling although stem-prefix and fuzzy candidates
\* were on disk as well
C3_Witness ==
    /\ match.done
    /\ match.nfo = BASE_PATH \o <<S_MyShow, N_ep_nfo>>
    /\ match.meta = PilotMeta
    /\ {F_sibling, F_upper, F_prefix, F_my_show, F_pilot} \subseteq match.disk
    /\ match.result.path = PathStr(F_sibling)
    /\ match.result.rglobs = 0

\* the video files on the disk of the matcher's run
VideosOnDisk == {p \in match.disk : Lower(Suffix(p)) \in VIDEO_EXTENSIONS}

\* the call of the claim C4: the video matcher for the episode "Pilot", season
\* "1", episode "1" of "My Show", described by x1.nfo, has returned
PilotCall ==
    /\ match.done
    /\ match.nfo = BASE_PATH \o <<S_MyShow, N_x1_nfo>>
    /\ match.meta = PilotMeta
    /\ match.exts = VIDEO_EXTENSIONS

\* C4 as stated: with My Show/myshow.s01e01.mkv as the library's video file,
\* the video matcher returns that file through the fuzzy strategy.
C4_MyshowFileMatched ==
    (PilotCall /\ VideosOnDisk = {F_myshow}) =>
        /\ match.result.path = PathStr(F_myshow)
        /\ match.result.stage = "fuzzy"

\* C4 amended: with My Show/my.show.s01e01.mkv as the library's video file the
\* video matcher returns that file through the fuzzy strategy, on the token
\* s01e01 alone: neither "pilot" nor s1e1 is in the normalised stem.  With
\* My Show/myshow.s01e01.mkv it returns None, because the normalised show
\* title "my.show" is not in the normalised stem "myshow.s01e01".
C4_PaddedTokenMatch ==
    /\ (PilotCall /\ VideosOnDisk = {F_my_show}) =>
        /\ match.result.path = PathStr(F_my_show)
        /\ match.result.stage = "fuzzy"
        /\ ~Contains(normalize(Stem(F_my_show)), T_pilot)
        /\ ~Contains(normalize(Stem(F_my_show)), T_s1e1)
        /\ Contains(normalize(Stem(F_my_show)), T_s01e01)
    /\ (PilotCall /\ VideosOnDisk = {F_myshow}) => match.result.path = None

C4_Witness ==
    /\ PilotCall
    /\ VideosOnDisk = {F_my_show}
    /\ match.result.stage = "fuzzy"
    /\ match.result.rglobs = 2

\* C5 as stated: two titles that differ only in letter case and in a "."
\* before a space normalise to the same text, as "Mr. Robot" and "mr robot".
C5_DotBeforeSpaceIgnored ==
    norm.passes >= 1 =>
        /\ norm.out1 = normalize(Lower(DropDotBeforeSpace(norm.in)))
        /\ norm.in = MrDotRobot => norm.out1 = normalize(mrRobot)

\* C5 amended: two titles that differ only in letter case and in the presence
\* of ",", "?" or "!" normalise to the same text, as "Mr, Robot" and
\* "mr robot" do; "Mr. Robot" becomes "mr..robot" and "mr robot" "mr.robot".
C5_CaseAndPunctIgnored ==
    norm.passes >= 1 =>
        /\ norm.out1 = normalize(Lower(RmPunct(norm.in)))
        /\ norm.in = MrCommaRobot => norm.out1 = T_mr_robot
        /\ norm.in = mrRobot => norm.out1 = T_mr_robot
        /\ norm.in = MrDotRobot => norm.out1 = T_mr_dot_robot

C5_Witness ==
    /\ norm.passes >= 1
    /\ norm.in = MrCommaRobot
    /\ norm.out1 = T_mr_robot

\* C6: normalising a normalised text changes nothing.
C6_Idempotent == norm.passes = 2 => norm.out2 = norm.out1

\* an accented capital, a space and a "!" went through both passes
C6_Witness ==
    /\ norm.passes = 2
    /\ norm.in = <<"U+00C9", " ", "!">>
    /\ norm.out1 = <<"e", ".">>
    /\ norm.out2 = <<"e", ".">>

\* what the loop of scan() does with the descriptor i
Meta(i) == parse_nfo_file(NfoTable[i].doc)

Kind(i) ==
    IF NfoTable[i].isFile /\ "type" \in DOMAIN Meta(i)
    THEN Meta(i)["type"] ELSE "skipped"

KeyOf(i) ==
    IF Kind(i) = "show" THEN show_key(Meta(i)["title"])
    ELSE show_key(Meta(i)["showtitle"])

\* the episode e was made from the descriptor i
MadeFrom(e, i) ==
    /\ e.showtitle = Meta(i)["showtitle"]
    /\ e.title = Meta(i)["title"]
    /\ e.season = Meta(i)["season"]
    /\ e.episode = Meta(i)["episode"]
    /\ e.plot = Meta(i)["plot"]

\* the library of C1: one show descriptor and one or more episode
\* descriptors, all with the title of the show
OneShowLibrary ==
    \E s \in nfos :
        /\ Kind(s) = "show"
        /\ nfos # {s}
        /\ \A i \in nfos \ {s} :
                Kind(i) = "episode" /\ Meta(i)["showtitle"] = Meta(s)["title"]

\* C1 as stated: the catalog that scan() returns for a library of one show
\* descriptor with title T and episode descriptors with showtitle T has one
\* entry, keyed show_key(T), with every one of these episodes, in whatever
\* order the descriptors were walked.
C1_OneShowAllEpisodes ==
    (cache # Null /\ OneShowLibrary) =>
        /\ Len(cache.val) = 1
        /\ \A i \in nfos :
              Kind(i) = "episode" =>
                /\ cache.val[1].key = show_key(Meta(i)["showtitle"])
                /\ \E n \in 1..Len(cache.val[1].val.episodes) :
                      MadeFrom(cache.val[1].val.episodes[n], i)

\* the place of the last show descriptor of key k in the order, 0 for none
LastShowAt(order, k) ==
    LET at == {j \in 1..Len(order) : Kind(order[j]) = "show" /\ KeyOf(order[j]) = k}
    IN  IF at = {} THEN 0 ELSE CHOOSE j \in at : \A l \in at : l <= j

\* the places of the episode descriptors of key k behind that show descriptor
EpisodesAt(order, k) ==
    {j \in 1..Len(order) :
        /\ j > LastShowAt(order, k)
        /\ Kind(order[j]) = "episode"
        /\ KeyOf(order[j]) = k}

\* the n-th smallest element of a set of numbers
RECURSIVE Nth(_, _)
Nth(S, n) ==
    LET least == CHOOSE x \in S : \A y \in S : x <= y
    IN  IF n = 1 THEN least ELSE Nth(S \ {least}, n - 1)

\* C10: while scan() runs and when it ends, the catalog has an entry for
\* each key that a processed show or episode descriptor has, and the
\* episodes of the entry of key k are, in the order of processing, those of
\* the episode descriptors of key k processed after the last show descriptor
\* of key k (all of them when there was none); the entry is the fresh Show of
\* that show descriptor or, without one, Show(title=showtitle, plot="") of
\* the first episode.
C10_EpisodesAfterLastShow ==
    \A w \in DOMAIN workers :
        workers[w].pc = "scan" =>
            LET order == workers[w].order
                shows == workers[w].shows
            IN  /\ DictKeys(shows) =
                      {KeyOf(order[j]) : j \in {l \in 1..Len(order) :
                                                    Kind(order[l]) # "skipped"}}
                /\ \A n \in 1..Len(shows) :
                      LET k == shows[n].key
                          show == shows[n].val
                          at == EpisodesAt(order, k)
                          last == LastShowAt(order, k)
                      IN  /\ Len(show.episodes) = Cardinality(at)
                          /\ \A m \in 1..Len(show.episodes) :
                                MadeFrom(show.episodes[m], order[Nth(at, m)])
                          /\ IF last > 0
                             THEN /\ show.title = Meta(order[last])["title"]
                                  /\ show.plot = Meta(order[last])["plot"]
                             ELSE /\ show.title = Meta(order[Nth(at, 1)])["showtitle"]
                                  /\ show.plot = <<>>

\* a walk came to an episode of "Foo", then to the show descriptor of "Foo",
\* then to another episode of "Foo": the entry holds the second episode only
C10_Witness ==
    /\ nfos = {1, 2, 3}
    /\ workers[1].pc = "scan"
    /\ workers[1].order = <<2, 1, 3>>
    /\ Len(workers[1].shows) = 1
    /\ Len(workers[1].shows[1].val.episodes) = 1
    /\ MadeFrom(workers[1].shows[1].val.episodes[1], 3)

PageHandlers == {"home", "show_detail", "episode_detail"}

\* C2 as stated: a call of scan() returns the catalog that every call which
\* had returned before it started has returned, and walks nothing.
C2_SameAsEveryEarlierCall ==
    (lastResp.handler \in PageHandlers /\ lastResp.prior # {}) =>
        /\ ~lastResp.walked
        /\ \A id \in lastResp.prior : lastResp.cat = id

\* C2 amended: a call of scan() that starts after some call has returned
\* walks nothing and returns the cached catalog, which is the catalog of the
\* first call that returned, whatever has changed on disk; the catalog that a
\* call racing with the first build has returned later is its own, and no
\* later call returns it.
C2_LaterCallsReturnCached ==
    (lastResp.handler \in PageHandlers /\ lastResp.prior # {}) =>
        /\ ~lastResp.walked
        /\ cache # Null
        /\ lastResp.cat = cache.id
        /\ lastResp.cat \in lastResp.prior
        /\ lastResp.keys = DictKeys(cache.val)

\* a call answered from the cache with the catalog of one episode while two
\* descriptors of episodes are on disk
C2_Witness ==
    /\ lastResp.handler \in PageHandlers
    /\ lastResp.prior # {}
    /\ ~lastResp.walked
    /\ Cardinality(lastResp.slugs) = 1
    /\ Cardinality(nfos) = 2

\* C7: an unknown show key or episode slug gets the not-found page with
\* status 200; a path that is no regular file gets HTTP 404 and no file.
C7_NotFound ==
    /\ (lastResp.handler = "show_detail" /\ lastResp.arg \notin lastResp.keys) =>
            lastResp.status = 200 /\ lastResp.page = "not_found"
    /\ (lastResp.handler = "episode_detail" /\ lastResp.arg \notin lastResp.slugs) =>
            lastResp.status = 200 /\ lastResp.page = "not_found"
    /\ ( /\ lastResp.handler \in {"serve_video", "serve_thumb"}
         /\ ~lastResp.onDisk ) =>
            lastResp.status = 404 /\ lastResp.page = "error" /\ lastResp.content = <<>>

\* a show page was asked for with a key that the catalog, which holds the
\* show "Foo", does not have
C7_Witness ==
    /\ lastResp.handler = "show_detail"
    /\ lastResp.arg = <<"0">>
    /\ lastResp.keys = {show_key(S_Foo)}
    /\ lastResp.page = "not_found"
    /\ lastResp.status = 200

\* C8 as stated: the body of scan() is executed at most once.
C8_BodyAtMostOnce == builds <= 1

\* C8 amended: the body of scan() is entered only while the cache is empty,
\* once by each request that calls scan() before the first build has been
\* stored, so requests that race on the first scan each execute it; once the
\* cache is populated it is never entered again.
C8_NoBodyOncePopulated ==
    [][builds' # builds => (cache = Null /\ builds' = builds + 1)]_vars

\* two requests have walked the library, and a later one was answered from
\* the cache
C8_Witness ==
    /\ builds >= 2
    /\ cache # Null
    /\ Cardinality(lastResp.prior) >= 2
    /\ lastResp.handler \in PageHandlers
    /\ ~lastResp.walked

\* C9: once populated, the cache slot and the catalog in it never change.
C9_CachedNeverChanges == [][cache # Null => cache' = cache]_vars

\* a racing scan has returned its own catalog after the cache was populated,
\* and a show page has listed the two cached episodes, stored in the order
\* 2, 10, in the order of their numbers as texts, 10 before 2
C9_Witness ==
    /\ cache # Null
    /\ \E id \in returned : id # cache.id
    /\ lastResp.handler = "show_detail"
    /\ lastResp.page = "show"
    /\ ~lastResp.walked
    /\ Len(cache.val) = 1
    /\ Len(cache.val[1].val.episodes) = 2
    /\ MadeFrom(cache.val[1].val.episodes[1], 2)
    /\ lastResp.cat = cache.id
    /\ lastResp.content # DictGet(cache.val, lastResp.arg).episodes

\* every entry of the catalog is under the key of its show's title, and so
\* is every episode in it
KeysAgree(shows) ==
    \A i \in 1..Len(shows) :
        /\ show_key(shows[i].val.title) = shows[i].key
        /\ \A j \in 1..Len(shows[i].val.episodes) :
              show_key(shows[i].val.episodes[j].showtitle) = shows[i].key

\* C11: in every intermediate and final state of the catalog that scan()
\* builds, whatever the order of the walk, each entry (k, show) has
\* show_key(show.title) = k and each of its episodes e has
\* show_key(e.showtitle) = k; the catalog that was returned and cached has
\* them too.
C11_KeysAgree ==
    /\ \A w \in DOMAIN workers : KeysAgree(workers[w].shows)
    /\ cache # Null => KeysAgree(cache.val)

\* a walk has come to the show descriptor of "Baz" and then to an episode
\* descriptor of "Foo", whose key is the same: the episode is in the entry
\* titled "Baz"
C11_Witness ==
    /\ workers[1].pc = "scan"
    /\ \E i \in 1..Len(workers[1].shows) :
          LET show == workers[1].shows[i].val
          IN  /\ show.title = S_Baz
              /\ show.episodes # <<>>
              /\ show.episodes[1].showtitle = S_Foo
====
